---------------------------- MODULE Spec2Model ----------------------------
(***************************************************************************)
(* A model of safe-location-density: src/density.py (H3Resolution and the  *)
(* DensityTransform fit / transform lifecycle) and src/utils.py (the GBFS  *)
(* feed loop free_bike_status_to_df).                                      *)
(*                                                                         *)
(* Python values are tagged pairs <<type, value>>, frames are records of   *)
(* a column set and a row sequence, and frames live in a small heap so     *)
(* that aliasing between the caller's frame and the instance's frame is    *)
(* expressible.  Coordinates are integers; the hexagonal grid is an        *)
(* integer grid whose cells halve in width with each resolution level.     *)
(***************************************************************************)
EXTENDS Integers, Sequences, FiniteSets, TLC

VARIABLES
    heap,           \* object store: frame reference -> frame
    callerDf,       \* the reference the caller passed as df=
    origDf,         \* history: the caller's frame as it was before construction
    input_df,       \* self._input_df (a reference)
    colsOk,         \* whether lat_col / lng_col name columns of the frame
    polygon_cache,  \* self._polygon_cache: set of <<key, polygon>>
    is_fit,         \* self._is_fit
    resolution,     \* self.resolution
    fit_returned,   \* history: some fit() call has returned normally
    nfits,          \* number of fit() calls that got past the grid assignment
    ret,            \* the last call on the instance and its outcome
    feeds,          \* free_bike_status_to_df: the feeds argument (what each feed does)
    fi,             \* index of the feed the for loop is at
    pc,             \* position inside free_bike_status_to_df
    resp,           \* the local variable resp
    out_df,         \* the local variable out_df (rows)
    log,            \* what the function printed
    exc             \* the exception that left the function, if any

dvars == <<heap, callerDf, origDf, input_df, colsOk, polygon_cache, is_fit,
           resolution, fit_returned, nfits, ret>>
fvars == <<feeds, fi, pc, resp, out_df, log, exc>>
vars == <<heap, callerDf, origDf, input_df, colsOk, polygon_cache, is_fit,
          resolution, fit_returned, nfits, ret, feeds, fi, pc, resp, out_df,
          log, exc>>

(***************************************************************************)
(* Bounds of the model.                                                    *)
(***************************************************************************)
MaxRecords == 3
MaxFits == 2
MaxFeeds == 3

(***************************************************************************)
(* Module constants of density.py.                                         *)
(***************************************************************************)
AGG == "agg"
EXTRAP == "extrapolate"
GEO == <<"geometry", 0>>
MODES == {AGG, EXTRAP}

\* Python values that can be handed in as mode=, and the absent keyword.
PyStr(s) == <<"str", s>>
PyNone == <<"NoneType", "">>
Absent == <<"absent", "">>
Truthy(v) == v[1] = "str" /\ v[2] # ""

\* f"{n}" for an integer n, as a sequence of characters.
Digit(d) == CASE d = 0 -> "0" [] d = 1 -> "1" [] d = 2 -> "2" [] d = 3 -> "3"
              [] d = 4 -> "4" [] d = 5 -> "5" [] d = 6 -> "6" [] d = 7 -> "7"
              [] d = 8 -> "8" [] d = 9 -> "9"

RECURSIVE Digits(_)
Digits(n) == IF n < 10 THEN <<Digit(n)>> ELSE Digits(n \div 10) \o <<Digit(n % 10)>>

Format(n) == IF n < 0 THEN <<"-">> \o Digits(0 - n) ELSE Digits(n)

_poly_cache_key(lat, lng) == Format(lat) \o <<"-">> \o Format(lng)


(***************************************************************************)
(* H3Resolution: the resolution table and its lookup.                      *)
(***************************************************************************)
\* The (area_km2, avg_edge_len_km) pairs, as the decimal literals of the source.
_resolution_values ==
    << <<"4250546.8477000", "1107.712591000">>,
       <<"607220.9782429", "418.676005500">>,
       <<"86745.8540347", "158.244655800">>,
       <<"12392.2648621", "59.810857940">>,
       <<"1770.3235517", "22.606379400">>,
       <<"252.9033645", "8.544408276">>,
       <<"36.1290521", "3.229482772">>,
       <<"5.1612932", "1.220629759">>,
       <<"0.7373276", "0.461354684">>,
       <<"0.1053325", "0.174375668">>,
       <<"0.0150475", "0.065907807">>,
       <<"0.0021496", "0.024910561">>,
       <<"0.0003071", "0.009415526">>,
       <<"0.0000439", "0.003559893">>,
       <<"0.0000063", "0.001348575">>,
       <<"0.0000009", "0.000509713">> >>

\* Python's list[i]: i counts from 0, a negative i counts from the end, and
\* anything else raises IndexError (the 1-based position, or 0 for the error).
PyListPos(list, i) ==
    IF i >= 0 /\ i < Len(list) THEN i + 1
    ELSE IF i < 0 /\ i >= 0 - Len(list) THEN Len(list) + i + 1
    ELSE 0

NoEntry == [resolution |-> 0, area_km2 |-> "", avg_edge_len_km |-> ""]

\* H3Resolution.from_resolution: [raised, entry].
from_resolution(res) ==
    LET pos == PyListPos(_resolution_values, res) IN
    IF pos = 0
    THEN [raised |-> TRUE, entry |-> NoEntry]
    ELSE [raised |-> FALSE,
          entry |-> [resolution |-> res,
                     area_km2 |-> _resolution_values[pos][1],
                     avg_edge_len_km |-> _resolution_values[pos][2]]]

(***************************************************************************)
(* The grid (h3 / h3pandas, used through the .h3 accessor).  A cell at      *)
(* resolution r is a square of width 2^(16-r); its index is <<r, i, j>>.    *)
(***************************************************************************)
ValidResolutions == 0..15

RECURSIVE Pow2(_)
Pow2(n) == IF n = 0 THEN 1 ELSE 2 * Pow2(n - 1)

CellSize(r) == Pow2(16 - r)

\* h3.geo_to_h3(lat, lng, resolution)
geo_to_h3(lat, lng, r) == <<r, lat \div CellSize(r), lng \div CellSize(r)>>

\* h3.h3_to_geo_boundary, as a shapely Polygon: the cell's extent
\* <<"Polygon", lat low, lat high, lng low, lng high>>.
h3_to_geo_boundary(cell) ==
    LET s == CellSize(cell[1]) IN
    <<"Polygon", cell[2] * s, (cell[2] + 1) * s, cell[3] * s, (cell[3] + 1) * s>>

NoGeoColumn == <<"absent", 0, 0, 0, 0>>
NoneGeo == <<"None", 0, 0, 0, 0>>

\* obj.centroid.coords.xy: <<x, y>> with x the longitude and y the latitude.
CentroidXY(poly) == <<(poly[4] + poly[5]) \div 2, (poly[2] + poly[3]) \div 2>>

(***************************************************************************)
(* Frames.                                                                 *)
(***************************************************************************)
ID_COL == <<"id", 0>>
LAT == <<"lat", 0>>
LNG == <<"lng", 0>>
H3Column(r) == <<"h3_", r>>

\* H3_RE = ^h3_\d{2}$ on the column name f"h3_{r:02}": two digits exactly.
H3_RE_match(col) == col[1] = "h3_" /\ col[2] >= 0 /\ col[2] <= 99

Refs == {1, 2}
FreeSlot == [cols |-> {<<"free", 0>>}, rows |-> <<>>]

\* The lowest reference that no live name holds.
Fresh(live) == CHOOSE r \in Refs \ live : \A q \in Refs \ live : r <= q

\* DfCopy without the copy: self._input_df = df.
DfAlias(h, ref) == [heap |-> h, ref |-> ref]

\* df.copy(): a new frame object with the same contents.
DfCopy(h, ref) ==
    LET new == Fresh({ref}) IN [heap |-> [h EXCEPT ![new] = h[ref]], ref |-> new]

\* Lines 112-118: geo_to_h3 (the cell column), h3_to_geo_boundary (the
\* geometry column), reset_index (the cell column becomes an ordinary column).
H3Chain(frame, res) ==
    [cols |-> frame.cols \cup {H3Column(res), GEO},
     rows |-> [i \in 1..Len(frame.rows) |->
                 [frame.rows[i] EXCEPT
                    !.geo = h3_to_geo_boundary(
                              geo_to_h3(frame.rows[i].lat, frame.rows[i].lng, res))]]]

\* Lines 121-125: drop the cell column when exactly one column matches H3_RE.
DropHexColumn(frame) ==
    LET _hex_columns == {c \in frame.cols : H3_RE_match(c)} IN
    IF Cardinality(_hex_columns) = 1
    THEN [frame EXCEPT !.cols = frame.cols \ _hex_columns]
    ELSE frame

\* ReplaceCoords with the two centroid coordinates taken the wrong way round.
ReplaceCoordsSwapped(frame) ==
    [frame EXCEPT !.rows =
        [i \in 1..Len(frame.rows) |->
            [frame.rows[i] EXCEPT !.lng = CentroidXY(frame.rows[i].geo)[2],
                                  !.lat = CentroidXY(frame.rows[i].geo)[1]]]]

\* Lines 129-134: lng := centroid x, lat := centroid y.
ReplaceCoords(frame) ==
    [frame EXCEPT !.rows =
        [i \in 1..Len(frame.rows) |->
            [frame.rows[i] EXCEPT !.lng = CentroidXY(frame.rows[i].geo)[1],
                                  !.lat = CentroidXY(frame.rows[i].geo)[2]]]]

\* dict[key] = value
CachePut(cache, key, value) == {p \in cache : p[1] # key} \cup {<<key, value>>}

\* dict.get(key): None when the key is missing.
CacheGet(cache, key) ==
    IF \E p \in cache : p[1] = key
    THEN (CHOOSE p \in cache : p[1] = key)[2]
    ELSE NoneGeo

\* BuildCache with the key's arguments in the other order (lng, lat).
RECURSIVE BuildCacheSwapped(_, _)
BuildCacheSwapped(cache, rows) ==
    IF rows = <<>> THEN cache
    ELSE BuildCacheSwapped(
           CachePut(cache, _poly_cache_key(Head(rows).lng, Head(rows).lat),
                    Head(rows).geo),
           Tail(rows))

\* Lines 138-140: one cache entry per row, in row order.
RECURSIVE BuildCache(_, _)
BuildCache(cache, rows) ==
    IF rows = <<>> THEN cache
    ELSE BuildCache(
           CachePut(cache, _poly_cache_key(Head(rows).lat, Head(rows).lng),
                    Head(rows).geo),
           Tail(rows))

(***************************************************************************)
(* _transform_agg: groupby([lat, lng]).agg({id: "nunique"}).reset_index(). *)
(***************************************************************************)
KeyLess(a, b) == a[1] < b[1] \/ (a[1] = b[1] /\ a[2] < b[2])

\* The group keys, each once, in ascending order (groupby sorts its keys).
RECURSIVE InsertKey(_, _)
InsertKey(keys, k) ==
    IF keys = <<>> THEN <<k>>
    ELSE IF Head(keys) = k THEN keys
    ELSE IF KeyLess(k, Head(keys)) THEN <<k>> \o keys
    ELSE <<Head(keys)>> \o InsertKey(Tail(keys), k)

RECURSIVE GroupKeys(_)
GroupKeys(rows) ==
    IF rows = <<>> THEN <<>>
    ELSE InsertKey(GroupKeys(Tail(rows)), <<Head(rows).lat, Head(rows).lng>>)

RECURSIVE IdsOfGroup(_, _)
IdsOfGroup(rows, k) ==
    IF rows = <<>> THEN {}
    ELSE (IF <<Head(rows).lat, Head(rows).lng>> = k THEN {Head(rows).id} ELSE {})
         \cup IdsOfGroup(Tail(rows), k)

\* nunique replaced by "count": the rows of the group, repeated ids included.
RECURSIVE CountOfGroup(_, _)
CountOfGroup(rows, k) ==
    IF rows = <<>> THEN 0
    ELSE (IF <<Head(rows).lat, Head(rows).lng>> = k THEN 1 ELSE 0)
         + CountOfGroup(Tail(rows), k)

\* "nunique" over one group's id column.
nunique(rows, k) == Cardinality(IdsOfGroup(rows, k))

_transform_agg(frame, cache, restore_geo) ==
    LET keys == GroupKeys(frame.rows) IN
    [i \in 1..Len(keys) |->
        [lat |-> keys[i][1],
         lng |-> keys[i][2],
         count |-> nunique(frame.rows, keys[i]),
         geo |-> IF restore_geo
                 THEN CacheGet(cache, _poly_cache_key(keys[i][1], keys[i][2]))
                 ELSE NoGeoColumn]]

(***************************************************************************)
(* _needs_fit: the guard wrapped around transform and transform_plot.      *)
(***************************************************************************)
\* kwargs.get("mode", None)
KwargsGetMode(kw) == IF kw = Absent THEN PyNone ELSE kw

\* The value the wrapped method's mode parameter is bound to (default AGG).
ModeParam(kw) == IF kw = Absent THEN PyStr(AGG) ELSE kw

_needs_fit(fit, kw) ==
    IF ~fit THEN "ValueError: requires fit"
    ELSE IF Truthy(KwargsGetMode(kw)) /\ KwargsGetMode(kw)[2] \notin MODES
         THEN "ValueError: invalid mode"
    ELSE "pass"

(***************************************************************************)
(* Inputs.                                                                 *)
(***************************************************************************)
Ids == {"A", "B"}
Points == {<<-1, 1>>, <<-3, 2>>}
RawRecords ==
    {[id |-> e, lat |-> p[1], lng |-> p[2], geo |-> NoGeoColumn] : e \in Ids, p \in Points}
RawFrames ==
    {[cols |-> {ID_COL, LAT, LNG}, rows |-> rs] :
        rs \in UNION {[1..n -> RawRecords] : n \in 0..MaxRecords}}

FitResolutions == {-17, -1, 14, 15, 16}
LookupResolutions == {-17, -16, -1, 0, 15, 16}
ModeArguments == {Absent, PyNone, PyStr(AGG), PyStr(EXTRAP), PyStr(""), PyStr("bogus")}

NoCall ==
    [op |-> "none", kw |-> Absent, res |-> 0, outcome |-> "none", kind |-> "none",
     rows |-> <<>>, entry |-> NoEntry]

Call(op, kw, res, outcome, kind, rows, entry) ==
    [op |-> op, kw |-> kw, res |-> res, outcome |-> outcome, kind |-> kind,
     rows |-> rows, entry |-> entry]

\* The local resp before its first assignment.
Unbound == [bound |-> FALSE, feed |-> 0, status_code |-> 0, body |-> "none", bikes |-> 0]

\* No call of free_bike_status_to_df is under way.
FeedIdle ==
    /\ feeds = [given |-> TRUE, list |-> <<>>]
    /\ fi = 0
    /\ pc = "idle"
    /\ resp = Unbound
    /\ out_df = <<>>
    /\ log = <<>>
    /\ exc = "none"

(***************************************************************************)
(* DensityTransform.                                                       *)
(***************************************************************************)
\* __init__: the state once DensityTransform(df=..., id_col=...) has returned.
\* colsOk says whether lat_col and lng_col name columns of df (nothing checks
\* that at construction).
Init ==
    /\ \E df \in RawFrames :
         LET h0 == [r \in Refs |-> IF r = 1 THEN df ELSE FreeSlot]
             c == DfCopy(h0, 1)
         IN /\ heap = c.heap
            /\ callerDf = 1
            /\ origDf = df
            /\ input_df = c.ref
    /\ colsOk \in BOOLEAN
    /\ polygon_cache = {}
    /\ is_fit = FALSE
    /\ resolution = NoEntry
    /\ fit_returned = FALSE
    /\ nfits = 0
    /\ ret = NoCall
    /\ FeedIdle

\* Whether the .h3 accessor chain of lines 112-118 raises: a configured
\* column that the frame lacks, or a cell computation (one per row) at a
\* resolution the grid does not have.
H3ChainRaises(frame, res) ==
    \/ ~colsOk
    \/ (frame.rows # <<>> /\ res \notin ValidResolutions)

\* fit(resolution=res).  When the accessor chain raises, the assignment of
\* line 112 never happens and the instance is as it was.  Otherwise the
\* chain's result is bound to self._input_df; the accessor chain is library
\* code, and the model lets it hand back either a new frame object or the one
\* it was called on.  Line 142 sets _is_fit before line 143 looks the
\* resolution up.
Fit(res) ==
    /\ IF H3ChainRaises(heap[input_df], res)
       THEN /\ ret' = Call("fit", Absent, res, "LibraryError", "none", <<>>, NoEntry)
            /\ UNCHANGED <<heap, input_df, polygon_cache, is_fit, resolution,
                           fit_returned, nfits>>
       ELSE /\ nfits < MaxFits
            /\ nfits' = nfits + 1
            /\ \E inplace \in BOOLEAN :
                 LET target == IF inplace THEN input_df ELSE Fresh({callerDf})
                     fitted == ReplaceCoords(DropHexColumn(H3Chain(heap[input_df], res)))
                     looked == from_resolution(res)
                 IN /\ heap' = [heap EXCEPT ![target] = fitted]
                    /\ input_df' = target
                    /\ polygon_cache' = BuildCache(polygon_cache, fitted.rows)
                    /\ is_fit' = TRUE
                    /\ IF looked.raised
                       THEN /\ ret' = Call("fit", Absent, res, "IndexError", "none",
                                           <<>>, NoEntry)
                            /\ UNCHANGED <<resolution, fit_returned>>
                       ELSE /\ resolution' = looked.entry
                            /\ fit_returned' = TRUE
                            /\ ret' = Call("fit", Absent, res, "returned", "self",
                                           <<>>, NoEntry)
    /\ UNCHANGED <<callerDf, origDf, colsOk>>
    /\ UNCHANGED fvars

\* transform(mode=...), wrapped by _needs_fit.
Transform(kw) ==
    LET guard == _needs_fit(is_fit, kw) IN
    /\ ret' = IF guard # "pass"
              THEN Call("transform", kw, 0, guard, "none", <<>>, NoEntry)
              ELSE IF ModeParam(kw) = PyStr(AGG)
              THEN Call("transform", kw, 0, "returned", "DataFrame",
                        _transform_agg(heap[input_df], polygon_cache, FALSE), NoEntry)
              ELSE Call("transform", kw, 0, "returned", "None", <<>>, NoEntry)
    /\ UNCHANGED <<heap, callerDf, origDf, input_df, colsOk, polygon_cache, is_fit,
                   resolution, fit_returned, nfits>>
    /\ UNCHANGED fvars

\* transform_plot(mode=...), wrapped by _needs_fit.  The map is built from
\* geo_df, the aggregation with its geometry restored; over an aggregation
\* of no rows the geometry and mapping libraries may refuse.
TransformPlot(kw) ==
    LET guard == _needs_fit(is_fit, kw)
        agg_df == _transform_agg(heap[input_df], polygon_cache, TRUE)
    IN
    /\ \E libraryOk \in (IF agg_df = <<>> THEN BOOLEAN ELSE {TRUE}) :
         ret' = IF guard # "pass"
                THEN Call("transform_plot", kw, 0, guard, "none", <<>>, NoEntry)
                ELSE IF ModeParam(kw) = PyStr(AGG)
                THEN IF libraryOk
                     THEN Call("transform_plot", kw, 0, "returned", "Map", agg_df, NoEntry)
                     ELSE Call("transform_plot", kw, 0, "LibraryError", "none", <<>>, NoEntry)
                ELSE Call("transform_plot", kw, 0, "returned", "None", <<>>, NoEntry)
    /\ UNCHANGED <<heap, callerDf, origDf, input_df, colsOk, polygon_cache, is_fit,
                   resolution, fit_returned, nfits>>
    /\ UNCHANGED fvars

\* H3Resolution.from_resolution(res), called directly.
FromResolution(res) ==
    LET looked == from_resolution(res) IN
    /\ ret' = IF looked.raised
              THEN Call("from_resolution", Absent, res, "IndexError", "none", <<>>, NoEntry)
              ELSE Call("from_resolution", Absent, res, "returned", "H3Resolution", <<>>,
                        looked.entry)
    /\ UNCHANGED <<heap, callerDf, origDf, input_df, colsOk, polygon_cache, is_fit,
                   resolution, fit_returned, nfits>>
    /\ UNCHANGED fvars

Next ==
    \/ \E res \in FitResolutions : Fit(res)
    \/ \E kw \in ModeArguments : Transform(kw)
    \/ \E kw \in ModeArguments : TransformPlot(kw)
    \/ \E res \in LookupResolutions : FromResolution(res)

Spec == Init /\ [][Next]_vars

(***************************************************************************)
(* utils.py: free_bike_status_to_df.  A feed is modelled by what a GET of   *)
(* it does: the connection fails, or a response comes back with a status    *)
(* code and a body.  Bike j of feed k is the row <<k, j>>.                   *)
(***************************************************************************)
NumGbfsFeeds == 3

FeedBehaviours ==
    {[connects |-> FALSE, status_code |-> 0, body |-> "none", bikes |-> 0],
     [connects |-> TRUE, status_code |-> 500, body |-> "error page", bikes |-> 0],
     [connects |-> TRUE, status_code |-> 200, body |-> "not json", bikes |-> 0],
     [connects |-> TRUE, status_code |-> 200, body |-> "json list", bikes |-> 0],
     [connects |-> TRUE, status_code |-> 200, body |-> "json without bikes", bikes |-> 0],
     [connects |-> TRUE, status_code |-> 200, body |-> "json bikes", bikes |-> 1],
     [connects |-> TRUE, status_code |-> 200, body |-> "json bikes", bikes |-> 3]}

\* The bikes list of feed k's body, as rows.
BikeRows(k, n) == [j \in 1..n |-> <<k, j>>]

\* The instance is not involved in a run of free_bike_status_to_df.
DensityIdle ==
    /\ heap = [r \in Refs |-> FreeSlot]
    /\ callerDf = 1
    /\ origDf = FreeSlot
    /\ input_df = 1
    /\ colsOk = FALSE
    /\ polygon_cache = {}
    /\ is_fit = FALSE
    /\ resolution = NoEntry
    /\ fit_returned = FALSE
    /\ nfits = 0
    /\ ret = NoCall

\* The call free_bike_status_to_df(feeds): feeds.given is FALSE for feeds=None,
\* and feeds.list then holds what the NumGbfsFeeds feeds of GBFS_FEEDS do.
FeedInit ==
    /\ DensityIdle
    /\ \E given \in BOOLEAN :
         \E l \in UNION {[1..n -> FeedBehaviours] :
                           n \in IF given THEN 0..MaxFeeds ELSE {NumGbfsFeeds}} :
            feeds = [given |-> given, list |-> l]
    /\ fi = 0
    /\ pc = "start"
    /\ resp = Unbound
    /\ out_df = <<>>
    /\ log = <<>>
    /\ exc = "none"

\* Lines 15-17: out_df = pd.DataFrame(); feeds defaults to GBFS_FEEDS.
FeedStart ==
    /\ pc = "start"
    /\ out_df' = <<>>
    /\ feeds' = [feeds EXCEPT !.given = TRUE]
    /\ fi' = 1
    /\ pc' = "get"
    /\ UNCHANGED <<resp, log, exc>>
    /\ UNCHANGED dvars

\* Lines 19-23: the next feed, and requests.get inside try/except.  The except
\* branch prints and falls through to line 25; resp keeps what it held.
FeedGet ==
    /\ pc = "get"
    /\ fi <= Len(feeds.list)
    /\ IF feeds.list[fi].connects
       THEN /\ resp' = [bound |-> TRUE, feed |-> fi,
                        status_code |-> feeds.list[fi].status_code,
                        body |-> feeds.list[fi].body,
                        bikes |-> feeds.list[fi].bikes]
            /\ UNCHANGED log
       ELSE /\ log' = Append(log, <<"Error on connect", fi>>)
            /\ UNCHANGED resp
    /\ pc' = "status"
    /\ UNCHANGED <<feeds, fi, out_df, exc>>
    /\ UNCHANGED dvars

\* Lines 25-28: resp.status_code; reading resp while it is unbound raises
\* UnboundLocalError, which leaves the function.
FeedCheckStatus ==
    /\ pc = "status"
    /\ IF ~resp.bound
       THEN /\ exc' = "UnboundLocalError"
            /\ pc' = "raised"
            /\ UNCHANGED <<fi, log>>
       ELSE IF resp.status_code # 200
       THEN /\ log' = Append(log, <<"Got non-200", fi>>)
            /\ fi' = fi + 1
            /\ pc' = "get"
            /\ UNCHANGED exc
       ELSE /\ pc' = "extract"
            /\ UNCHANGED <<fi, log, exc>>
    /\ UNCHANGED <<feeds, resp, out_df>>
    /\ UNCHANGED dvars

\* Lines 30-36: resp.json().get("data", {}).get("bikes", None), then the
\* concat.  json() raises on a body that is not JSON, and .get raises on JSON
\* that is not an object; neither is inside a try.
FeedExtract ==
    /\ pc = "extract"
    /\ IF resp.body = "not json"
       THEN /\ exc' = "JSONDecodeError"
            /\ pc' = "raised"
            /\ UNCHANGED <<fi, log, out_df>>
       ELSE IF resp.body = "json list"
       THEN /\ exc' = "AttributeError"
            /\ pc' = "raised"
            /\ UNCHANGED <<fi, log, out_df>>
       ELSE IF resp.body = "json without bikes"
       THEN /\ log' = Append(log, <<"Could not extract bike list", fi>>)
            /\ fi' = fi + 1
            /\ pc' = "get"
            /\ UNCHANGED <<exc, out_df>>
       ELSE /\ out_df' = out_df \o BikeRows(resp.feed, resp.bikes)
            /\ fi' = fi + 1
            /\ pc' = "get"
            /\ UNCHANGED <<exc, log>>
    /\ UNCHANGED <<feeds, resp>>
    /\ UNCHANGED dvars

\* Lines 38-40: the loop is over; reset_index()'s result is discarded.
FeedReturn ==
    /\ pc = "get"
    /\ fi > Len(feeds.list)
    /\ pc' = "returned"
    /\ UNCHANGED <<feeds, fi, resp, out_df, log, exc>>
    /\ UNCHANGED dvars

FeedNext ==
    \/ FeedStart
    \/ FeedGet
    \/ FeedCheckStatus
    \/ FeedExtract
    \/ FeedReturn

FeedSpec == FeedInit /\ [][FeedNext]_vars

(***************************************************************************)
(* The claims.                                                             *)
(***************************************************************************)
GatedCall == ret.op \in {"transform", "transform_plot"}

\* C1: a call of transform or transform_plot made while no fit() call has
\* yet returned normally ends in the requires-fit error, whatever mode is,
\* and returns nothing; a fit() that raised part-way does not count as a fit.
C1_UnfitCallFails ==
    (GatedCall /\ ~fit_returned) => ret.outcome = "ValueError: requires fit"

\* C2: on a fitted instance, a call of transform or transform_plot with a
\* supplied mode that is not one of MODES (the empty string and None
\* included) ends in the invalid-mode error.
C2_InvalidModeRejected ==
    (GatedCall /\ fit_returned /\ ret.kw # Absent
        /\ ~(ret.kw[1] = "str" /\ ret.kw[2] \in MODES))
    => ret.outcome = "ValueError: invalid mode"

\* C3: the frame transform() returns in aggregate mode has exactly one row
\* for every (lat, lng) pair among the fitted records, no row for any other
\* pair, and each row's count is the number of distinct ids among the
\* records with that pair.
C3_OneRowPerCellDistinctIds ==
    (ret.op = "transform" /\ ret.kind = "DataFrame") =>
        LET recs == heap[input_df].rows
            At(lat, lng) == {i \in DOMAIN recs : recs[i].lat = lat /\ recs[i].lng = lng}
        IN /\ \A i \in DOMAIN recs :
                Cardinality({j \in DOMAIN ret.rows :
                               /\ ret.rows[j].lat = recs[i].lat
                               /\ ret.rows[j].lng = recs[i].lng}) = 1
           /\ \A j \in DOMAIN ret.rows :
                /\ At(ret.rows[j].lat, ret.rows[j].lng) # {}
                /\ ret.rows[j].count =
                     Cardinality({recs[i].id : i \in At(ret.rows[j].lat, ret.rows[j].lng)})

\* C3's case: ids [A, A, B] fitted into one cell give one row with count 2.
C3_Witness ==
    /\ ret.op = "transform" /\ ret.kind = "DataFrame"
    /\ Len(heap[input_df].rows) = 3
    /\ heap[input_df].rows[1].id = "A"
    /\ heap[input_df].rows[2].id = "A"
    /\ heap[input_df].rows[3].id = "B"
    /\ origDf.rows[1].lat # origDf.rows[2].lat
    /\ Len(ret.rows) = 1
    /\ ret.rows[1].count = 2

\* C4: free_bike_status_to_df never leaves through an exception, whatever
\* the feeds do and in whatever order; it returns with the list exhausted.
C4_FeedLoopNeverRaises ==
    /\ pc # "raised"
    /\ exc = "none"
    /\ (pc = "returned" => fi = Len(feeds.list) + 1)

\* The rows of the feeds that answered 200 with a bike list, in feed order.
RECURSIVE SuccessfulRows(_, _)
SuccessfulRows(list, k) ==
    IF k > Len(list) THEN <<>>
    ELSE (IF /\ list[k].connects
             /\ list[k].status_code = 200
             /\ list[k].body = "json bikes"
          THEN BikeRows(k, list[k].bikes)
          ELSE <<>>) \o SuccessfulRows(list, k + 1)

\* C5: when free_bike_status_to_df returns, its result is exactly the bike
\* rows of the feeds that answered with a parseable bike list, each feed's
\* rows once and in feed order; a failed feed adds nothing.
C5_ResultIsSuccessfulFeeds ==
    pc = "returned" => out_df = SuccessfulRows(feeds.list, 1)

\* C6: the frame the caller passed to the constructor stays as it was,
\* through construction and every later call.
C6_CallerFrameUntouched == heap[callerDf] = origDf

\* C6's case: fit() has rewritten the instance's frame.
C6_Witness ==
    /\ fit_returned
    /\ heap[input_df].rows # <<>>
    /\ heap[input_df] # origDf
    /\ heap[callerDf] = origDf

\* C7: after a successful fit(), the key the read path builds for every
\* fitted record's (lat, lng) is a key of the polygon cache, and every row
\* of the aggregation that transform_plot maps carries a polygon.
C7_CacheLookupNeverMisses ==
    /\ fit_returned =>
         \A i \in DOMAIN heap[input_df].rows :
            \E p \in polygon_cache :
               p[1] = _poly_cache_key(heap[input_df].rows[i].lat,
                                      heap[input_df].rows[i].lng)
    /\ ret.kind = "Map" => \A j \in DOMAIN ret.rows : ret.rows[j].geo[1] = "Polygon"

\* C7's case: transform_plot has mapped two cells, each with its own polygon.
C7_Witness ==
    /\ fit_returned
    /\ ret.kind = "Map"
    /\ Len(ret.rows) = 2
    /\ ret.rows[1].geo[1] = "Polygon"
    /\ ret.rows[2].geo[1] = "Polygon"
    /\ ret.rows[1].geo # ret.rows[2].geo

\* The centre of the cell at resolution r that holds coordinate x.
CellCentre(x, r) == (x \div CellSize(r)) * CellSize(r) + CellSize(r) \div 2

\* C8: a fit(resolution=r) that returns leaves every record at the centroid
\* of the cell at resolution r that held it when fit was called, so records
\* of one cell end with the same (lat, lng).
C8_FitSnapsToCentroid ==
    [][(ret'.op = "fit" /\ ret'.outcome = "returned") =>
         LET old == heap[input_df].rows
             new == heap'[input_df'].rows
             r == ret'.res
         IN /\ Len(new) = Len(old)
            /\ \A i \in DOMAIN old :
                 /\ new[i].lat = CellCentre(old[i].lat, r)
                 /\ new[i].lng = CellCentre(old[i].lng, r)
                 /\ new[i].id = old[i].id
            /\ \A i, j \in DOMAIN old :
                 geo_to_h3(old[i].lat, old[i].lng, r) = geo_to_h3(old[j].lat, old[j].lng, r)
                 => (new[i].lat = new[j].lat /\ new[i].lng = new[j].lng)]_vars

\* C8's case: two records that started apart sit on one centroid after a fit.
C8_Witness ==
    /\ ret.op = "fit" /\ ret.outcome = "returned"
    /\ nfits = 1
    /\ \E i, j \in DOMAIN origDf.rows :
         /\ origDf.rows[i].lat # origDf.rows[j].lat
         /\ heap[input_df].rows[i].lat = heap[input_df].rows[j].lat
         /\ heap[input_df].rows[i].lng = heap[input_df].rows[j].lng
         /\ heap[input_df].rows[i].lat # origDf.rows[i].lat

\* C9: from_resolution(res) returns an entry exactly when res is in 0..15,
\* the entry being the table's res-th pair with resolution = res; for every
\* other res, the negative ones included, it raises.
C9_LookupOnlyInRange ==
    ret.op = "from_resolution" =>
        IF ret.res \in 0..15
        THEN /\ ret.outcome = "returned"
             /\ ret.entry = [resolution |-> ret.res,
                             area_km2 |-> _resolution_values[ret.res + 1][1],
                             avg_edge_len_km |-> _resolution_values[ret.res + 1][2]]
        ELSE ret.outcome # "returned"

\* C10: on a fitted instance, transform or transform_plot called with
\* mode="extrapolate" ends in an error; it does not return.
C10_ExtrapolateFailsLoudly ==
    (GatedCall /\ fit_returned /\ ret.kw = PyStr(EXTRAP)) => ret.outcome # "returned"

=============================================================================
